---- MODULE Spec2Model ----
(***************************************************************************)
(* Model of the GeoParquet viewer's App component (src/src/App.vue): the   *)
(* paged loader (load / loadMore / loadAll / discover), the geometry       *)
(* materializer (parseWKB / addToMap), the selection synchronizer, the     *)
(* modal list (showModal / hideModal) with the keydown listeners of the    *)
(* Modal components (src/src/components/modals/Modal.vue), the range-fetch *)
(* adapter (asyncBuffer.slice) and the reset on URL change.                *)
(*                                                                         *)
(* JavaScript runs one task at a time.  Every `await` on a network result  *)
(* (HEAD probe, footer fetch, row-range read) ends a task, so each async   *)
(* loadMore invocation is a small process whose steps interleave with the  *)
(* user's clicks and with other loadMore invocations.  The continuations   *)
(* that follow onComplete (parseWKB, addToMap, finally) only wait on       *)
(* already-resolved promises: they run as microtasks before any other      *)
(* task, which the model states with the guard ~Running.                   *)
(*                                                                         *)
(* A file is named by its number of rows: url = f is a file of f rows,     *)
(* whose i-th row (0-based) is the pair (f, i).                            *)
(***************************************************************************)
EXTENDS Integers, Sequences, FiniteSets, TLC

\* ------------------------------------------------------------------ bounds
MaxRows == 3            \* files have 0..MaxRows rows
MaxStarts == 3          \* loadMore invocations started in one run (mount included)
MaxInFlight == 2        \* loadMore invocations pending at once
PageSizeDefault == 2    \* getDefaults().pageSize, scaled down from 500
MaxClock == 1           \* Date.now() takes the values 0..MaxClock
MaxModals == 2          \* open modal dialogs at once
MaxByte == 11           \* slice() is called with byte positions 0..MaxByte

\* ------------------------------------------------------------- JS values
\* null and undefined, as numbers no row count, offset or size can take
NULL == 0 - 1
UNDEF == 0 - 2

\* null coerces to 0 in arithmetic (null + n, Math.max(null - g, 0))
JsNum(x) == IF x = NULL THEN 0 ELSE x

Min(a, b) == IF a < b THEN a ELSE b

Files == 0..MaxRows
\* the loadMore invocations of a run, numbered in the order they start
Slots == 1..MaxStarts

VARIABLES
    url,        \* this.url
    data,       \* this.data: the rows shown in the table
    columns,    \* this.columns
    offset,     \* this.offset: a number, or NULL once the load is complete
    pageSize,   \* this.pageSize: 0 means "everything that is left"
    fileSize,   \* this.fileSize: NULL until the HEAD probe succeeded
    metadata,   \* this.metadata: NULL until the footer was read
    loading,    \* this.loading
    selected,   \* this.selected: a row index or NULL
    source,     \* this.source: the map's vector source, a set of features
    calls,      \* the loadMore invocations: idle (not started), pending, returned
    started,    \* number of loadMore invocations started so far
    sess        \* history of the current file session (since the last reset):
                \*   n      number of the session (1 + resets so far)
                \*   seq    no invocation of it started while another was pending
                \*   ok     no invocation has reported an error in it
                \*   pages  sizes of the pages onComplete applied in it, in order
                \*   reads  rowStart of the parquetRead calls made in it, in order
                \*   noop   a loadMore invocation returned at its guard in it
                \*   sel    every selection made in it was a selectOnMap call for
                \*          a row that had a feature in the map source
                \*   prev   this.selected when the last selection handler was called

VARIABLES
    modals,     \* this.modals: the open modal descriptors, in rendering order
    now,        \* Date.now()
    threw,      \* the last selection handler ended in an uncaught TypeError
    wire,       \* the last asyncBuffer.slice call: its arguments and the HTTP
                \* requests it issued
    listeners   \* the Modal instances whose escCloseListener is registered for
                \* keydown on window; an instance is named by the id of its
                \* descriptor and the session it was opened in

vars == <<url, data, columns, offset, pageSize, fileSize, metadata, loading,
          selected, source, calls, started, sess, modals, now, threw, wire, listeners>>

\* ---------------------------------------------------------------- files
\* content-length of file f
SizeOf(f) == f + 1

\* footer of file f, as parquetMetadataAsync returns it
MetadataOf(f) == [num_rows |-> f]

\* schema column names, Object.keys(this.allColumns)
ColumnsOf(f) == <<"id", "geometry">>

\* row i (0-based) of file f as parquetRead returns it: geometry still WKB bytes
Row(f, i) == [file |-> f, idx |-> i, geo |-> "wkb"]

\* rows [lo, hi) of file f, in file order
FileRows(f, lo, hi) == [k \in 1..(IF hi > lo THEN hi - lo ELSE 0) |-> Row(f, lo + k - 1)]

\* this.metadata === null
NoMetadata == [num_rows |-> UNDEF]

\* this.numRows: this.metadata?.num_rows
numRows == metadata.num_rows

\* ------------------------------------------------------------ call slots
\* pc: where the invocation is suspended; kind: who called it (load, loadMore,
\* loadAll); sess: the session it started in; file: the url its pending request goes to; size, rowStart,
\* rowEnd, meta: the arguments of its parquetRead call (size is file.byteLength); alerts: showError calls so far;
\* added: rows its onComplete pushed; before: offset, pageSize and selected
\* when load, loadMore or loadAll was called
Idle == [pc |-> "idle", kind |-> "none", sess |-> 0, file |-> 0, size |-> NULL,
         rowStart |-> NULL, rowEnd |-> UNDEF, meta |-> NoMetadata, alerts |-> 0,
         added |-> 0, before |-> [offset |-> NULL, pageSize |-> 0, selected |-> NULL]]

Pending == {"head", "meta", "read", "errbody", "parse", "add"}

InFlight(c) == calls[c].pc \in Pending

NoneInFlight == \A c \in Slots : ~InFlight(c)

\* a microtask chain (the code after onComplete) is running
Running == \E c \in Slots : calls[c].pc \in {"parse", "add"}

\* ------------------------------------------------------------- template
\* <span class="counts" v-if="!loading"> ... <button v-if="offset !== null">
HeaderLoadMoreShown == ~loading /\ offset # NULL

\* <section v-else id="table-container"> ... <div v-if="offset !== null" class="loadmore">
TableButtonsShown == Len(data) # 0 /\ offset # NULL

\* ---------------------------------------------------------------- reset
\* getDefaults()
Defaults == [data |-> <<>>, columns |-> <<>>, offset |-> 0,
             pageSize |-> PageSizeDefault, fileSize |-> NULL, metadata |-> NoMetadata,
             loading |-> FALSE, selected |-> NULL, modals |-> <<>>]

\* ------------------------------------------------------------- loadMore
\* (a loadMore without its guard)
LoadMoreNeverReturnsEarly(off) == FALSE

\* if (this.offset === null) return;
LoadMoreReturnsEarly(off) == off = NULL

\* (a loadMore that reads every page from the first row)
RowStartAtZero(off) == 0

\* const rowStart = this.offset;
RowStart(off) == off

\* (a loadMore whose window ends at pageSize instead of offset + pageSize)
RowEndWithoutOffset(off, ps) == IF ps # 0 THEN ps ELSE UNDEF

\* let rowEnd = undefined; if (this.pageSize) rowEnd = this.offset + this.pageSize;
RowEnd(off, ps) == IF ps # 0 THEN JsNum(off) + ps ELSE UNDEF

\* (an onComplete that takes a full page for the last one)
IsLastPageWhenFull(ps, n) == ps = 0 \/ n <= ps

\* (an onComplete that forgets the pageSize of 0 that loadAll sets)
IsLastPageWhenShort(ps, n) == n < ps

\* onComplete: if (!this.pageSize || data.length < this.pageSize) offset = null
IsLastPage(ps, n) == ps = 0 \/ n < ps

\* onComplete: else this.offset += data.length
NextOffset(off, ps, n) == IF IsLastPage(ps, n) THEN NULL ELSE JsNum(off) + n

\* the rows parquetRead hands to onComplete for a call: rows [rowStart, rowEnd)
\* of the file, cut at the end of the file
PageOf(call) ==
    LET n == call.file
        hi == IF call.rowEnd = UNDEF THEN n ELSE Min(call.rowEnd, n)
    IN FileRows(call.file, JsNum(call.rowStart), hi)

\* the awaited parquetRead call: file, metadata, columns, rowStart, rowEnd are
\* evaluated when the call is made
IssueRead(call, off, ps, u, fs, md) ==
    [call EXCEPT !.pc = "read", !.rowStart = RowStart(off), !.rowEnd = RowEnd(off, ps),
                 !.file = u, !.size = fs, !.meta = md]

\* the snapshot a call keeps of the state it was started in
Snapshot == [offset |-> offset, pageSize |-> pageSize, selected |-> selected]

\* loadMore up to its first await, for an invocation that passed the guard:
\* this.loading = true; then the HEAD probe of discover() when the file size is
\* unknown, else the parquetRead call.  u, off, ps, fs, md are this.url,
\* this.offset, ... as the caller (load, loadAll) left them.
Begin(kind, hist, u, off, ps, fs, md) ==
    LET base == [Idle EXCEPT !.kind = kind, !.sess = hist.n, !.file = u,
                             !.before = Snapshot]
    IN /\ started < MaxStarts
       /\ sess' = [hist EXCEPT !.seq = @ /\ NoneInFlight,
                               !.reads = IF fs = NULL THEN @ ELSE Append(@, RowStart(off))]
       /\ Cardinality({c \in Slots : InFlight(c)}) < MaxInFlight
       /\ started' = started + 1
       /\ loading' = TRUE
       /\ calls' = [calls EXCEPT ![started + 1] =
                        IF fs = NULL THEN [base EXCEPT !.pc = "head"]
                                     ELSE IssueRead(base, off, ps, u, fs, md)]

\* async loadMore(), as a method of the component: called at any time
LoadMore ==
    /\ ~Running
    /\ IF LoadMoreReturnsEarly(offset)
       THEN /\ sess' = [sess EXCEPT !.noop = TRUE]
            /\ UNCHANGED <<url, data, columns, offset, pageSize, fileSize, metadata,
                           loading, selected, source, calls, started>>
       ELSE /\ Begin("more", sess, url, offset, pageSize, fileSize, metadata)
            /\ UNCHANGED <<url, data, columns, offset, pageSize, fileSize, metadata,
                           selected, source>>
    /\ UNCHANGED <<modals, now, threw, wire, listeners>>

\* async loadAll(), as a method of the component:
\* this.pageSize = 0; await this.loadMore();
LoadAll ==
    /\ ~Running
    /\ pageSize' = 0
    /\ IF LoadMoreReturnsEarly(offset)
       THEN /\ sess' = [sess EXCEPT !.noop = TRUE]
            /\ UNCHANGED <<url, data, columns, offset, fileSize, metadata, loading,
                           selected, source, calls, started>>
       ELSE /\ Begin("all", sess, url, offset, 0, fileSize, metadata)
            /\ UNCHANGED <<url, data, columns, offset, fileSize, metadata,
                           selected, source>>
    /\ UNCHANGED <<modals, now, threw, wire, listeners>>

\* the history of a session that starts
NewSession(n) == [n |-> n, seq |-> TRUE, ok |-> TRUE, pages |-> <<>>, reads |-> <<>>,
                  noop |-> FALSE, sel |-> TRUE, prev |-> NULL]

\* (a load() that does not call reset())
LoadWithoutReset(u) ==
    /\ ~Running
    /\ u # url
    /\ url' = u
    /\ UNCHANGED <<data, columns, offset, pageSize, fileSize, metadata, selected, source,
                   modals, now, threw, wire, listeners>>
    /\ Begin("load", NewSession(sess.n + 1), u, offset, pageSize, fileSize, metadata)

\* reset(): every key of getDefaults() is assigned, then this.source.clear()
\* LoadDataModal's save handler sets this.url; watch.url calls load():
\* this.reset(); await this.loadMore();
SetUrl(u) ==
    /\ ~Running
    /\ u # url
    /\ url' = u
    /\ data' = Defaults.data
    /\ columns' = Defaults.columns
    /\ offset' = Defaults.offset
    /\ pageSize' = Defaults.pageSize
    /\ fileSize' = Defaults.fileSize
    /\ metadata' = Defaults.metadata
    /\ selected' = Defaults.selected
    /\ modals' = Defaults.modals
    /\ source' = {}
    /\ UNCHANGED <<now, threw, wire, listeners>>
    /\ Begin("load", NewSession(sess.n + 1), u, Defaults.offset, Defaults.pageSize,
             Defaults.fileSize, Defaults.metadata)

\* the error path of discover(): catch (error) { this.showError(error.message) };
\* discover() then returns normally and loadMore goes on to the parquetRead call
DiscoverFailed(c) ==
    /\ calls' = [calls EXCEPT ![c] =
                    IssueRead([calls[c] EXCEPT !.alerts = @ + 1],
                              offset, pageSize, url, fileSize, metadata)]
    /\ sess' = [sess EXCEPT !.ok = FALSE, !.reads = Append(@, RowStart(offset))]
    /\ UNCHANGED <<url, data, columns, offset, pageSize, fileSize, metadata, loading,
                   selected, source, started, modals, now, threw, wire, listeners>>

\* discover(): the HEAD probe answered ok with a content-length:
\* this.fileSize = Number(size); then parquetMetadataAsync(this.asyncBuffer)
HeadOk(c) ==
    /\ ~Running
    /\ calls[c].pc = "head"
    /\ fileSize' = SizeOf(calls[c].file)
    /\ calls' = [calls EXCEPT ![c] = [@ EXCEPT !.pc = "meta", !.file = url]]
    /\ UNCHANGED <<url, data, columns, offset, pageSize, metadata, loading,
                   selected, source, started, sess, modals, now, threw, wire, listeners>>

\* discover(): fetch rejected, !head.ok, or no content-length header
HeadFail(c) ==
    /\ ~Running
    /\ calls[c].pc = "head"
    /\ DiscoverFailed(c)

\* discover(): parquetMetadataAsync resolved: this.metadata = ...; the columns
\* are seeded when none are chosen; then loadMore calls parquetRead
MetaOk(c) ==
    /\ ~Running
    /\ calls[c].pc = "meta"
    /\ metadata' = MetadataOf(calls[c].file)
    /\ columns' = IF Len(columns) = 0 THEN ColumnsOf(calls[c].file) ELSE columns
    /\ calls' = [calls EXCEPT ![c] =
                    IssueRead(calls[c], offset, pageSize, url, fileSize, metadata')]
    /\ sess' = [sess EXCEPT !.reads = Append(@, RowStart(offset))]
    /\ UNCHANGED <<url, data, offset, pageSize, fileSize, loading, selected, source,
                   started, modals, now, threw, wire, listeners>>

\* discover(): parquetMetadataAsync rejected (fetch or footer decode failed)
MetaFail(c) ==
    /\ ~Running
    /\ calls[c].pc = "meta"
    /\ DiscoverFailed(c)

\* parquetRead can decode the file with what it was given: the byte length of
\* the file (it locates the footer and the row groups by it), and the file's
\* own footer or none (the library then reads the footer itself)
Readable(call) ==
    /\ call.size = SizeOf(call.file)
    /\ call.meta = NoMetadata \/ call.meta = MetadataOf(call.file)

\* parquetRead resolved its rows: onComplete(data)
ReadOk(c) ==
    /\ ~Running
    /\ calls[c].pc = "read"
    /\ Readable(calls[c])
    /\ LET page == PageOf(calls[c])
       IN /\ loading' = FALSE
          /\ data' = data \o page
          /\ offset' = NextOffset(offset, pageSize, Len(page))
          /\ calls' = [calls EXCEPT ![c] = [@ EXCEPT !.pc = "parse", !.added = Len(page)]]
          /\ sess' = [sess EXCEPT !.pages = Append(@, Len(page))]
    /\ UNCHANGED <<url, columns, pageSize, fileSize, metadata, selected, source, started,
                   modals, now, threw, wire, listeners>>

\* what is kept of an invocation that returned: how it ended, and what it was
Finished(call, pc) == [Idle EXCEPT !.pc = pc, !.kind = call.kind]

\* catch (error) { this.showError(error.message) } finally { this.loading = false }
Failed(c) ==
    /\ loading' = FALSE
    /\ calls' = [calls EXCEPT ![c] = Finished(calls[c], "err")]
    /\ sess' = [sess EXCEPT !.ok = FALSE]

\* parquetRead rejected (fetch failed, malformed Parquet) before onComplete
ReadFail(c) ==
    /\ ~Running
    /\ calls[c].pc = "read"
    /\ Failed(c)
    /\ UNCHANGED <<url, data, columns, offset, pageSize, fileSize, metadata,
                   selected, source, started, modals, now, threw, wire, listeners>>

\* a range fetch of parquetRead was answered with a non-success status (404,
\* 416, 500, ...): slice does not look at res.ok or res.status and resolves to
\* res.arrayBuffer(), so the reader receives the body of the error response as
\* the bytes of the file.  Taken for a read that could have succeeded.
RangeBadStatus(c) ==
    /\ ~Running
    /\ calls[c].pc = "read"
    /\ Readable(calls[c])
    /\ calls' = [calls EXCEPT ![c] = [@ EXCEPT !.pc = "errbody"]]
    /\ UNCHANGED <<url, data, columns, offset, pageSize, fileSize, metadata, loading,
                   selected, source, started, sess, modals, now, threw, wire, listeners>>

\* the reader cannot decode the body of the error response and rejects:
\* loadMore's catch and finally
DecodeErrorBody(c) ==
    /\ ~Running
    /\ calls[c].pc = "errbody"
    /\ Failed(c)
    /\ UNCHANGED <<url, data, columns, offset, pageSize, fileSize, metadata,
                   selected, source, started, modals, now, threw, wire, listeners>>

\* format.readFeature on one cell: WKB bytes decode to a feature; a cell that
\* already holds a feature is read again
Decode(row) == [row EXCEPT !.geo = IF @ = "wkb" THEN "feature" ELSE "redecoded"]

\* parseWKB(): every row of this.data is decoded in place, in order; j rows are
\* done when it returns (j = all of them) or throws.  Without metadata
\* this.geoMetadata is null and this.geoMetadata.columns throws at once.
ParseWKB(c) ==
    /\ calls[c].pc = "parse"
    /\ \E j \in 0..Len(data), thrown \in BOOLEAN :
          /\ metadata = NoMetadata => thrown /\ j = 0
          /\ ~thrown => j = Len(data)
          /\ data' = [k \in 1..Len(data) |-> IF k <= j THEN Decode(data[k]) ELSE data[k]]
          /\ IF thrown
             THEN Failed(c)
             ELSE /\ calls' = [calls EXCEPT ![c] = [@ EXCEPT !.pc = "add"]]
                  /\ UNCHANGED <<loading, sess>>
    /\ UNCHANGED <<url, columns, offset, pageSize, fileSize, metadata, selected,
                   source, started, modals, now, threw, wire, listeners>>

\* the feature parseWKB left in row k (1-based) of this.data: feature.setId(i)
FeatureOf(k) == [id |-> k - 1, file |-> data[k].file, idx |-> data[k].idx,
                 geo |-> data[k].geo, style |-> "default"]

SourceIds == {f.id : f \in source}

\* addToMap(): this.source.addFeature(feature) for every row of this.data; the
\* source keeps one feature per id and ignores a feature whose id it holds.
\* Then finally { this.loading = false }.
AddToMap(c) ==
    /\ calls[c].pc = "add"
    /\ source' = source \cup {FeatureOf(k) : k \in {m \in 1..Len(data) : (m - 1) \notin SourceIds}}
    /\ loading' = FALSE
    /\ calls' = [calls EXCEPT ![c] = Finished(calls[c], "ok")]
    /\ UNCHANGED <<url, data, columns, offset, pageSize, fileSize, metadata, selected,
                   started, sess, modals, now, threw, wire, listeners>>

\* ------------------------------------------------------------ selection
\* this.source.getFeatureById(id) finds a feature (else it returns null)
HasFeature(src, id) == \E f \in src : f.id = id

\* setFeatureStyle(id, style) on a feature that exists: feature.setStyle(style)
SetFeatureStyle(src, id, style) ==
    {IF f.id = id THEN [f EXCEPT !.style = style] ELSE f : f \in src}

\* unselectFeature() throws: this.selected is not null and getFeatureById
\* returns null, so feature.setStyle is a TypeError
UnselectThrows == selected # NULL /\ ~HasFeature(source, selected)

\* (an unselectFeature() that leaves the style of the feature as it is)
UnselectedKeepsStyle == source

\* the map source after an unselectFeature() that returned
Unselected ==
    IF selected = NULL THEN source ELSE SetFeatureStyle(source, selected, "default")

\* selectOnMap(i), the click handler of table row i:
\* this.select(i) (unselectFeature(); this.selected = i), then selectFeature()
\* (setFeatureStyle(this.selected, this.selectStyle), fit the view).  A
\* TypeError leaves the handler where it is raised; what was assigned before
\* stays assigned.  The row exists in the table: the template renders the
\* rows from this.data through the columns of the schema, which needs the footer.
SelectOnMap(i) ==
    /\ ~Running
    /\ i < Len(data)
    /\ metadata # NoMetadata
    /\ IF UnselectThrows
       THEN /\ threw' = TRUE
            /\ UNCHANGED <<selected, source>>
       ELSE /\ selected' = i
            /\ IF HasFeature(source, i)
               THEN /\ source' = SetFeatureStyle(Unselected, i, "select")
                    /\ threw' = FALSE
               ELSE /\ source' = Unselected
                    /\ threw' = TRUE
    /\ sess' = [sess EXCEPT !.sel = @ /\ HasFeature(source, i), !.prev = selected]
    /\ UNCHANGED <<url, data, columns, offset, pageSize, fileSize, metadata, loading,
                   calls, started, modals, now, wire, listeners>>

\* selectInTable(i), called by the map's select handler with the id of the
\* feature that was clicked: this.select(i), then
\* document.getElementById(`row${i}`).scrollIntoView(...), a TypeError when the
\* table has no such row
SelectInTable(i) ==
    /\ ~Running
    /\ HasFeature(source, i)
    /\ IF UnselectThrows
       THEN /\ threw' = TRUE
            /\ UNCHANGED <<selected, source>>
       ELSE /\ selected' = i
            /\ source' = Unselected
            /\ threw' = ~(i < Len(data))
    /\ sess' = [sess EXCEPT !.sel = FALSE, !.prev = selected]
    /\ UNCHANGED <<url, data, columns, offset, pageSize, fileSize, metadata, loading,
                   calls, started, modals, now, wire, listeners>>

\* --------------------------------------------------------------- modals
\* 'modal_' + Date.now()
ModalId(t) == "modal_" \o ToString(t)

\* the ids hideModal is called with
ModalIds == {ModalId(t) : t \in 0..MaxClock}

\* the Modal instance the template renders for a descriptor of this id
Instance(id) == [id |-> id, sess |-> sess.n]

\* showModal(component, props, events, id = null):
\* this.modals.push({component, props, events, id: id || 'modal_' + Date.now()})
\* the callers below pass no id.  The template then renders the dialog, whose
\* Modal has show = true: watch.show (immediate) calls open(), which registers
\* the keydown listener.
ShowModal(component, props) ==
    /\ ~Running
    /\ Len(modals) < MaxModals
    /\ modals' = Append(modals, [component |-> component, props |-> props,
                                 id |-> ModalId(now)])
    /\ listeners' = listeners \cup {Instance(ModalId(now))}
    /\ UNCHANGED <<url, data, columns, offset, pageSize, fileSize, metadata, loading,
                   selected, source, calls, started, sess, now, threw, wire>>

\* showAbout(): the header's About button
ShowAbout == ShowModal("AboutModal", NULL)

\* showLoad(): the header's Load Data button; props: { url: this.url }
ShowLoad == ShowModal("LoadDataModal", url)

\* showMetadata(): <button v-if="metadata">; props: the footer
ShowMetadata == metadata # NoMetadata /\ ShowModal("MetadataModal", metadata.num_rows)

\* this.modals.findIndex((other) => other.id === id): the 0-based index of the
\* first match, -1 when there is none
FindIndex(list, id) ==
    IF \E k \in 1..Len(list) : list[k].id = id
    THEN (CHOOSE k \in 1..Len(list) :
              list[k].id = id /\ \A m \in 1..(k - 1) : list[m].id # id) - 1
    ELSE 0 - 1

\* list.splice(index, 1): a negative index counts from the end of the list
Splice(list, index) ==
    LET start == IF index < 0
                 THEN (IF Len(list) + index < 0 THEN 0 ELSE Len(list) + index)
                 ELSE Min(index, Len(list))
    IN IF start < Len(list)
       THEN SubSeq(list, 1, start) \o SubSeq(list, start + 2, Len(list))
       ELSE list

\* typeof index !== 'undefined': findIndex always returns a number
IndexIsDefined(index) == TRUE

\* hideModal(modal), with a descriptor's id or an id: the @close handler of
\* the template and a method of the component
HideModal(id) ==
    /\ ~Running
    /\ LET index == FindIndex(modals, id)
       IN modals' = IF IndexIsDefined(index) THEN Splice(modals, index) ELSE modals
    /\ UNCHANGED <<url, data, columns, offset, pageSize, fileSize, metadata, loading,
                   selected, source, calls, started, sess, now, threw, wire, listeners>>

\* Modal.close() of the dialog on top, by its close button, a mousedown on
\* its backdrop or show = false: the listener is removed, then
\* this.$emit('close') runs the template's @close="hideModal(modal)"
CloseModal ==
    /\ ~Running
    /\ Len(modals) > 0
    /\ LET id == modals[Len(modals)].id
       IN /\ listeners' = listeners \ {Instance(id)}
          /\ modals' = Splice(modals, FindIndex(modals, id))
    /\ UNCHANGED <<url, data, columns, offset, pageSize, fileSize, metadata, loading,
                   selected, source, calls, started, sess, now, threw, wire>>

\* the modal list after the listeners ls have each run escCloseListener for an
\* Escape key: close() emits close, which reaches hideModal when the instance
\* is still mounted (its descriptor is in the list) and nothing when it is not
RECURSIVE EscapeAll(_, _)
EscapeAll(list, ls) ==
    IF ls = {} THEN list
    ELSE LET l == CHOOSE x \in ls : TRUE
             mounted == l.sess = sess.n /\ FindIndex(list, l.id) >= 0
         IN EscapeAll(IF mounted THEN Splice(list, FindIndex(list, l.id)) ELSE list,
                      ls \ {l})

\* the user presses Escape: the keydown event is dispatched to every listener
\* registered on window; stopPropagation() does not keep the other listeners
\* of the same target from running.  Each listener calls close().
Escape ==
    /\ ~Running
    /\ listeners # {}
    /\ modals' = EscapeAll(modals, listeners)
    /\ listeners' = {}
    /\ UNCHANGED <<url, data, columns, offset, pageSize, fileSize, metadata, loading,
                   selected, source, calls, started, sess, now, threw, wire>>

\* time passes
Tick ==
    /\ ~Running
    /\ now < MaxClock
    /\ now' = now + 1
    /\ UNCHANGED <<url, data, columns, offset, pageSize, fileSize, metadata, loading,
                   selected, source, calls, started, sess, modals, threw, wire, listeners>>

\* the Load Data dialog is open: its save handler is the one place that
\* assigns this.url
LoadDialogOpen == \E k \in 1..Len(modals) : modals[k].component = "LoadDataModal"

\* ---------------------------------------------------- range-fetch adapter
\* a header value is a sequence of characters, "bytes=" kept as one token
DigitChars == <<"0", "1", "2", "3", "4", "5", "6", "7", "8", "9">>

\* `${n}`: the decimal digits of a number, with its sign
RECURSIVE Digits(_)
Digits(n) ==
    IF n < 0 THEN <<"-">> \o Digits(0 - n)
    ELSE IF n < 10 THEN <<DigitChars[n + 1]>>
    ELSE Digits(n \div 10) \o <<DigitChars[(n % 10) + 1]>>

\* (a range end that names the first byte after the range)
RangeEndExclusive(end) == IF end = UNDEF THEN <<>> ELSE Digits(end)

\* const rangeEnd = end === undefined ? '' : end - 1;
RangeEnd(end) == IF end = UNDEF THEN <<>> ELSE Digits(end - 1)

\* Range: `bytes=${start}-${rangeEnd}`
RangeHeader(start, end) == <<"bytes=">> \o Digits(start) \o <<"-">> \o RangeEnd(end)

\* the same two lines of the earlier revision of the adapter
RangeEndEarlier(end) == IF end = UNDEF THEN <<>> ELSE Digits(end - 1)

RangeHeaderEarlier(start, end) ==
    <<"bytes=">> \o Digits(start) \o <<"-">> \o RangeEndEarlier(end)

\* no slice call was made yet
NoSlice == [rev |-> "none", start |-> 0, end |-> UNDEF, requests |-> <<>>]

\* the arguments slice is called with: 0 <= start < end, or no end
SliceArgs == {se \in (0..MaxByte) \X ({UNDEF} \cup 1..(MaxByte + 1)) :
                 se[2] = UNDEF \/ se[2] > se[1]}

\* asyncBuffer.slice(start, end): one fetch(this.url, { headers: { Range } }),
\* then res.arrayBuffer()
Slice(start, end) ==
    /\ wire' = [rev |-> "current", start |-> start, end |-> end,
                requests |-> <<[url |-> url, Range |-> RangeHeader(start, end)]>>]
    /\ UNCHANGED <<url, data, columns, offset, pageSize, fileSize, metadata, loading,
                   selected, source, calls, started, sess, modals, now, threw, listeners>>

\* asyncBuffer.slice(start, end) of the earlier revision
SliceEarlier(start, end) ==
    /\ wire' = [rev |-> "earlier", start |-> start, end |-> end,
                requests |-> <<[url |-> url, Range |-> RangeHeaderEarlier(start, end)]>>]
    /\ UNCHANGED <<url, data, columns, offset, pageSize, fileSize, metadata, loading,
                   selected, source, calls, started, sess, modals, now, threw, listeners>>

\* data(), then mounted(): this.createMap(); this.load();
Init ==
    /\ url \in Files
    /\ data = Defaults.data
    /\ columns = Defaults.columns
    /\ offset = Defaults.offset
    /\ pageSize = Defaults.pageSize
    /\ fileSize = Defaults.fileSize
    /\ metadata = Defaults.metadata
    /\ loading = TRUE
    /\ selected = Defaults.selected
    /\ source = {}
    /\ calls = [c \in Slots |-> IF c = 1
                   THEN [Idle EXCEPT !.pc = "head", !.kind = "load", !.sess = 1, !.file = url,
                                     !.before = [offset |-> Defaults.offset,
                                                 pageSize |-> Defaults.pageSize,
                                                 selected |-> Defaults.selected]]
                   ELSE Idle]
    /\ started = 1
    /\ sess = NewSession(1)
    /\ modals = Defaults.modals
    /\ now = 0
    /\ threw = FALSE
    /\ wire = NoSlice
    /\ listeners = {}

Next ==
    \/ LoadMore
    \/ LoadAll
    \/ \E u \in Files : SetUrl(u)
    \/ \E c \in Slots : HeadOk(c)
    \/ \E c \in Slots : HeadFail(c)
    \/ \E c \in Slots : MetaOk(c)
    \/ \E c \in Slots : MetaFail(c)
    \/ \E c \in Slots : ReadOk(c)
    \/ \E c \in Slots : ReadFail(c)
    \/ \E c \in Slots : ParseWKB(c)
    \/ \E c \in Slots : AddToMap(c)

Spec == Init /\ [][Next]_vars

\* The program as the template drives it: loadMore and loadAll are called by
\* the buttons, which exist only while the template shows them.
UiNext ==
    \/ (HeaderLoadMoreShown \/ TableButtonsShown) /\ LoadMore
    \/ TableButtonsShown /\ LoadAll
    \/ \E u \in Files : SetUrl(u)
    \/ \E c \in Slots : HeadOk(c)
    \/ \E c \in Slots : HeadFail(c)
    \/ \E c \in Slots : MetaOk(c)
    \/ \E c \in Slots : MetaFail(c)
    \/ \E c \in Slots : ReadOk(c)
    \/ \E c \in Slots : ReadFail(c)
    \/ \E c \in Slots : ParseWKB(c)
    \/ \E c \in Slots : AddToMap(c)

UiSpec == Init /\ [][UiNext]_vars

\* The same program with a user who waits: a button is clicked, or the URL
\* changed, only when no loadMore invocation is pending.
SeqNext ==
    \/ NoneInFlight /\ LoadMore
    \/ NoneInFlight /\ LoadAll
    \/ \E u \in Files : NoneInFlight /\ SetUrl(u)
    \/ \E c \in Slots : HeadOk(c)
    \/ \E c \in Slots : HeadFail(c)
    \/ \E c \in Slots : MetaOk(c)
    \/ \E c \in Slots : MetaFail(c)
    \/ \E c \in Slots : ReadOk(c)
    \/ \E c \in Slots : ReadFail(c)
    \/ \E c \in Slots : ParseWKB(c)
    \/ \E c \in Slots : AddToMap(c)

SeqSpec == Init /\ [][SeqNext]_vars

\* rows of the table, features of the map
RowIds == 0..(MaxRows - 1)

\* The user who waits, who also clicks table rows and map features.
ViewNext ==
    \/ NoneInFlight /\ LoadMore
    \/ NoneInFlight /\ LoadAll
    \/ \E u \in Files : NoneInFlight /\ SetUrl(u)
    \/ \E c \in Slots : HeadOk(c)
    \/ \E c \in Slots : HeadFail(c)
    \/ \E c \in Slots : MetaOk(c)
    \/ \E c \in Slots : MetaFail(c)
    \/ \E c \in Slots : ReadOk(c)
    \/ \E c \in Slots : ReadFail(c)
    \/ \E c \in Slots : ParseWKB(c)
    \/ \E c \in Slots : AddToMap(c)
    \/ \E i \in RowIds : SelectOnMap(i)
    \/ \E i \in RowIds : SelectInTable(i)

ViewSpec == Init /\ [][ViewNext]_vars

\* The user who waits, who also opens and closes dialogs and changes the URL
\* in the Load Data dialog.
ModalNext ==
    \/ NoneInFlight /\ LoadMore
    \/ NoneInFlight /\ LoadAll
    \/ \E u \in Files : NoneInFlight /\ LoadDialogOpen /\ SetUrl(u)
    \/ \E c \in Slots : HeadOk(c)
    \/ \E c \in Slots : HeadFail(c)
    \/ \E c \in Slots : MetaOk(c)
    \/ \E c \in Slots : MetaFail(c)
    \/ \E c \in Slots : ReadOk(c)
    \/ \E c \in Slots : ReadFail(c)
    \/ \E c \in Slots : ParseWKB(c)
    \/ \E c \in Slots : AddToMap(c)
    \/ ShowAbout
    \/ ShowLoad
    \/ ShowMetadata
    \/ \E id \in ModalIds : HideModal(id)
    \/ Tick

ModalSpec == Init /\ [][ModalNext]_vars

\* The range-fetch adapter alone, called as the Parquet reader calls it.
SliceNext ==
    \/ \E se \in SliceArgs : Slice(se[1], se[2])
    \/ \E se \in SliceArgs : SliceEarlier(se[1], se[2])

SliceSpec == Init /\ [][SliceNext]_vars

\* The user who waits, with a server that may answer a range request with a
\* non-success status.
HttpNext ==
    \/ NoneInFlight /\ LoadMore
    \/ NoneInFlight /\ LoadAll
    \/ \E u \in Files : NoneInFlight /\ SetUrl(u)
    \/ \E c \in Slots : HeadOk(c)
    \/ \E c \in Slots : HeadFail(c)
    \/ \E c \in Slots : MetaOk(c)
    \/ \E c \in Slots : MetaFail(c)
    \/ \E c \in Slots : ReadOk(c)
    \/ \E c \in Slots : ReadFail(c)
    \/ \E c \in Slots : RangeBadStatus(c)
    \/ \E c \in Slots : DecodeErrorBody(c)
    \/ \E c \in Slots : ParseWKB(c)
    \/ \E c \in Slots : AddToMap(c)

HttpSpec == Init /\ [][HttpNext]_vars

\* The user who waits and uses the dialogs through their Modal components:
\* opened by the header buttons, closed by the close button, the backdrop or
\* the Escape key; the URL is changed in the Load Data dialog.
KeyNext ==
    \/ NoneInFlight /\ LoadMore
    \/ NoneInFlight /\ LoadAll
    \/ \E u \in Files : NoneInFlight /\ LoadDialogOpen /\ SetUrl(u)
    \/ \E c \in Slots : HeadOk(c)
    \/ \E c \in Slots : HeadFail(c)
    \/ \E c \in Slots : MetaOk(c)
    \/ \E c \in Slots : MetaFail(c)
    \/ \E c \in Slots : ReadOk(c)
    \/ \E c \in Slots : ReadFail(c)
    \/ \E c \in Slots : ParseWKB(c)
    \/ \E c \in Slots : AddToMap(c)
    \/ ShowAbout
    \/ ShowLoad
    \/ ShowMetadata
    \/ CloseModal
    \/ Escape
    \/ Tick

KeySpec == Init /\ [][KeyNext]_vars

\* ------------------------------------------------------------ claims
\* the rows of this.data, whatever parseWKB has made of their geometry cells
Loaded == [k \in 1..Len(data) |-> [file |-> data[k].file, idx |-> data[k].idx]]

\* rows [0, n) of file f, in file order
Prefix(f, n) == [k \in 1..n |-> [file |-> f, idx |-> k - 1]]

RECURSIVE Sum(_)
Sum(q) == IF q = <<>> THEN 0 ELSE Head(q) + Sum(Tail(q))

\* the session has run as the claims about sequential loads assume: no
\* invocation started while another was pending, none reported an error
Clean == sess.seq /\ sess.ok

\* C1: at most one page load is in flight: a second trigger while a load is
\* pending never issues a row-range read for the same offset.  No two
\* invocations that the buttons started in one session are pending a read of
\* the same window of the same file.
C1_NoSecondReadOfWindow ==
    \A c, d \in Slots :
        (c # d /\ calls[c].pc = "read" /\ calls[d].pc = "read"
              /\ calls[c].kind # "load" /\ calls[d].kind # "load"
              /\ calls[c].sess = calls[d].sess)
        => ~(calls[c].file = calls[d].file /\ calls[c].rowStart = calls[d].rowStart)

\* an invocation that started before the last reset
Superseded(c) == InFlight(c) /\ calls[c].sess < sess.n

\* C2: the late result of a load superseded by a URL change is discarded: a
\* step of a superseded invocation changes neither the dataset, nor offset,
\* fileSize or metadata, nor the map source.
C2_SupersededResultDiscarded ==
    [][\A c \in Slots :
          (Superseded(c) /\ calls'[c] # calls[c] /\ sess'.n = sess.n)
          => (data' = data /\ offset' = offset /\ fileSize' = fileSize
                /\ metadata' = metadata /\ source' = source)]_vars

\* C3: after loads that ran one after the other and all succeeded, the
\* dataset is a prefix of the file's rows in file order, and its length is the
\* sum of the sizes of the pages returned.
C3_DatasetIsPrefix ==
    Clean => /\ Len(data) <= url
             /\ Loaded = Prefix(url, Len(data))
             /\ Len(data) = Sum(sess.pages)

\* C3 witness: two pages applied, the second one short, across a page boundary
C3_Witness ==
    /\ Clean
    /\ NoneInFlight
    /\ Len(sess.pages) = 2
    /\ sess.pages[1] = PageSizeDefault
    /\ sess.pages[2] > 0
    /\ Len(data) = PageSizeDefault + sess.pages[2]

\* C4 as stated: with a positive page size the k-th read of a session requests
\* the window starting at k*P, retries included.  Stated for sessions whose
\* invocations did not overlap.
C4_KthReadIsKthWindow ==
    (sess.seq /\ pageSize = PageSizeDefault)
    => \A k \in 1..Len(sess.reads) : sess.reads[k] = (k - 1) * PageSizeDefault

\* C4 amended: a read issued with a positive page size P requests the window
\* [o, o + P) for the offset o current when it is issued; a read that fails
\* leaves the offset as it was (the retry requests the same window again), and
\* a page that is applied without completing the load advances the offset by
\* the number of rows it returned.
C4_NextWindowStartsAtOffset ==
    [][\A c \in Slots :
          /\ (calls[c].pc # "read" /\ calls'[c].pc = "read" /\ pageSize' # 0)
             => (calls'[c].rowStart = offset'
                   /\ calls'[c].rowEnd = JsNum(offset') + pageSize')
          /\ (calls[c].pc = "read" /\ calls'[c].pc = "err") => offset' = offset
          /\ (calls[c].pc = "read" /\ calls'[c].pc = "parse" /\ offset' # NULL)
             => offset' = JsNum(offset) + calls'[c].added]_vars

\* C4 witness: a retry after a failed read has requested the first window again,
\* and a later read has requested the second window
C4_Witness ==
    /\ sess.seq
    /\ pageSize = PageSizeDefault
    /\ Len(sess.reads) = 3
    /\ sess.reads[1] = 0
    /\ sess.reads[2] = 0
    /\ sess.reads[3] = PageSizeDefault

\* C5: the page that brings the number of loaded rows up to num_rows completes
\* the load (offset becomes null), also when num_rows is a multiple of the
\* page size.
C5_CompleteAtTotal ==
    (Clean /\ metadata = MetadataOf(url) /\ Len(sess.pages) >= 1
           /\ Len(data) = numRows)
    => offset = NULL

\* C6: loadMore on a complete load (offset null) is a no-op: no request is
\* issued and no field of the component changes.
C6_LoadMoreWhenCompleteIsNoOp ==
    [][(LoadMore /\ offset = NULL)
       => UNCHANGED <<url, data, columns, offset, pageSize, fileSize, metadata,
                      loading, selected, source, calls, started>>]_vars

\* C6 witness: loadMore has returned at its guard after a load completed while
\* another invocation is still pending
C6_Witness ==
    /\ sess.noop
    /\ offset = NULL
    /\ pageSize = PageSizeDefault
    /\ Len(data) > 0
    /\ \E c \in Slots : InFlight(c)

\* C7: a load that completed, through loadAll or through loadMore page by
\* page or through both, holds all rows of the file in file order: the two
\* ways of loading end in the same dataset.
C7_CompleteLoadIsWholeFile ==
    (Clean /\ offset = NULL) => Loaded = Prefix(url, url)

\* C7 witness: loadAll has completed a load after a first page came from
\* loadMore
C7_Witness ==
    /\ Clean
    /\ offset = NULL
    /\ pageSize = 0
    /\ Len(sess.pages) = 2
    /\ sess.pages[1] = PageSizeDefault
    /\ sess.pages[2] > 0
    /\ \E c \in Slots : calls[c].pc = "ok" /\ calls[c].kind = "all"

\* C8: loadAll on an incomplete load sets pageSize to 0 and starts one
\* invocation; the read it issues in its session has rowStart = offset and no
\* rowEnd; when that read succeeds the load is complete.
C8_LoadAllReadsTheRest ==
    [][\A c \in Slots :
          /\ (calls[c].pc = "idle" /\ calls'[c].kind = "all")
             => (pageSize' = 0 /\ started' = started + 1 /\ c = started'
                   /\ calls'[c].pc \in {"head", "read"}
                   /\ (fileSize # NULL => calls'[c].pc = "read"))
          /\ (calls[c].pc # "read" /\ calls'[c].pc = "read" /\ calls'[c].kind = "all"
                /\ calls'[c].sess = sess'.n)
             => (calls'[c].rowStart = offset' /\ calls'[c].rowEnd = UNDEF)
          /\ (calls[c].pc = "read" /\ calls'[c].pc = "parse" /\ calls[c].kind = "all"
                /\ calls[c].sess = sess.n)
             => offset' = NULL]_vars

\* C8 witness: a loadAll read that returned as many rows as a page holds has
\* completed the load
C8_Witness ==
    \E c \in Slots :
        /\ calls[c].pc = "parse"
        /\ calls[c].kind = "all"
        /\ calls[c].sess = sess.n
        /\ calls[c].added >= PageSizeDefault
        /\ calls[c].rowEnd = UNDEF
        /\ offset = NULL

\* C9: an invocation that ends in an error leaves offset and pageSize as they
\* were when it was called and has added no row.  Stated for sessions whose
\* invocations did not overlap.
C9_ErrorLeavesPaginationUnchanged ==
    [][\A c \in Slots :
          (sess.seq /\ calls[c].sess = sess.n /\ InFlight(c) /\ calls'[c].pc = "err")
          => (offset' = calls[c].before.offset
                /\ pageSize' = calls[c].before.pageSize
                /\ calls[c].added = 0)]_vars

\* C10: a failed discovery aborts the load attempt there: the error is
\* reported, no row-range read is issued for the attempt and no row is added.
C10_DiscoveryFailureAborts ==
    \A c \in Slots :
        (InFlight(c) /\ calls[c].alerts > 0)
        => (calls[c].pc \notin {"read", "parse", "add"} /\ calls[c].added = 0)

\* C11: when a load for a new URL begins, at the moment its first request is
\* issued the dataset is empty, offset is 0, pageSize is the default, fileSize
\* and metadata are null, nothing is selected and the map source is empty,
\* whatever the state before; that first request is the probe of the new URL.
C11_LoadStartsFromDefaults ==
    [][\A c \in Slots :
          (calls[c].pc = "idle" /\ calls'[c].kind = "load")
          => (/\ data' = <<>>
              /\ offset' = 0
              /\ pageSize' = PageSizeDefault
              /\ fileSize' = NULL
              /\ metadata' = NoMetadata
              /\ selected' = NULL
              /\ source' = {}
              /\ calls'[c].pc = "head"
              /\ calls'[c].file = url')]_vars

\* C11 witness: a load has just begun from a session that was complete after
\* loadAll (pageSize 0) with a row selected
C11_Witness ==
    \E c \in Slots :
        /\ calls[c].kind = "load"
        /\ calls[c].pc = "head"
        /\ calls[c].sess = sess.n
        /\ sess.n > 1
        /\ calls[c].before.offset = NULL
        /\ calls[c].before.pageSize = 0
        /\ calls[c].before.selected # NULL
        /\ data = <<>>
        /\ selected = NULL
        /\ source = {}

\* C12: the modal list is independent of the dataset: a step that starts a
\* load, loadMore or loadAll invocation (reset included) leaves the list of
\* open modals as it was, same entries in the same order.
C12_LoadsLeaveModalsOpen ==
    [][(started' = started + 1) => modals' = modals]_vars

\* C13: hideModal with an id that matches no open modal is a no-op: the list
\* of open modals is unchanged, whatever it holds.
C13_HideUnknownIdIsNoOp ==
    [][\A id \in ModalIds :
          (HideModal(id) /\ \A k \in 1..Len(modals) : modals[k].id # id)
          => modals' = modals]_vars

\* the ids of the features that carry the highlighted style
Highlighted == {f.id : f \in {g \in source : g.style = "select"}}

\* C14: after any sequence of selectOnMap calls on rows that have a feature
\* in the map source, exactly one feature is highlighted, the one of the row
\* selected last; every feature selected before is in the default style.
C14_OneFeatureHighlighted ==
    sess.sel => Highlighted = (IF selected = NULL THEN {} ELSE {selected})

\* C14 witness: row j was selected after another row i; the feature of j is
\* highlighted and the feature of i is in the default style
C14_Witness ==
    /\ sess.sel
    /\ selected # NULL
    /\ sess.prev # NULL
    /\ sess.prev # selected
    /\ \E f \in source : f.id = selected /\ f.style = "select"
    /\ \E f \in source : f.id = sess.prev /\ f.style = "default"

\* C15: selectOnMap(i) for a table row i that has no feature in the map
\* source is a no-op: no error is raised, and the selection and all feature
\* styles stay as they were.
C15_SelectWithoutFeatureIsNoOp ==
    [][\A i \in RowIds :
          (SelectOnMap(i) /\ ~HasFeature(source, i))
          => (selected' = selected /\ source' = source /\ ~threw')]_vars

\* C16: after every successfully completed page the map source holds exactly
\* one feature for each loaded row, with the row's index as id, decoded from
\* that row's geometry bytes; no row is decoded a second time by a later page.
C16_OneFeaturePerRowDecodedOnce ==
    (Clean /\ NoneInFlight /\ Len(sess.pages) >= 1)
    => (/\ SourceIds = 0..(Len(data) - 1)
        /\ Cardinality(source) = Len(data)
        /\ \A f \in source : /\ f.file = data[f.id + 1].file
                              /\ f.idx = data[f.id + 1].idx
                              /\ f.geo = "feature"
        /\ \A k \in 1..Len(data) : data[k].geo = "feature")

\* the number a sequence of decimal digits stands for
RECURSIVE Value(_)
Value(ds) ==
    IF ds = <<>> THEN 0
    ELSE 10 * Value(SubSeq(ds, 1, Len(ds) - 1))
         + (CHOOSE d \in 0..9 : DigitChars[d + 1] = ds[Len(ds)])

\* a byte-range header as a server reads it: unit, first byte position, last
\* byte position (inclusive), UNDEF for a range open to the end of the file
ParseRange(h) ==
    LET dash == CHOOSE k \in 2..Len(h) : h[k] = "-" /\ \A m \in 2..(k - 1) : h[m] # "-"
    IN [unit |-> h[1],
        first |-> Value(SubSeq(h, 2, dash - 1)),
        last |-> IF dash = Len(h) THEN UNDEF ELSE Value(SubSeq(h, dash + 1, Len(h)))]

\* C17: slice(start, end) issues exactly one request; its Range header asks
\* for the bytes start..end-1 when end is given and for the bytes from start
\* to the end of the file when it is not; both revisions of the adapter
\* compute the same header.
C17_RangeHeader ==
    wire.rev # "none"
    => (/\ Len(wire.requests) = 1
        /\ wire.requests[1].url = url
        /\ ParseRange(wire.requests[1].Range) =
              [unit |-> "bytes=", first |-> wire.start,
               last |-> IF wire.end = UNDEF THEN UNDEF ELSE wire.end - 1]
        /\ RangeHeader(wire.start, wire.end) = RangeHeaderEarlier(wire.start, wire.end))

\* C17 witness: a slice call with a one-digit start and a two-digit end
C17_Witness ==
    /\ wire.rev = "current"
    /\ wire.start = 9
    /\ wire.end = 11
    /\ wire.requests = <<[url |-> url, Range |-> <<"bytes=", "9", "-", "1", "0">>]>>

\* C18: after selectOnMap(i) or selectInTable(i), both of which call
\* select(i), the selected row is i, whatever was selected before.
C18_SelectionIsRecorded ==
    [][\A i \in RowIds : (SelectOnMap(i) \/ SelectInTable(i)) => selected' = i]_vars

\* C19: every open modal descriptor has an id distinct from the ids of all
\* other open descriptors, for any sequence of showModal calls, calls at the
\* same clock value included.
C19_ModalIdsAreDistinct ==
    \A j, k \in 1..Len(modals) : j # k => modals[j].id # modals[k].id

\* C20: a row-range fetch that returns a non-success HTTP status is a
\* failure of the load attempt: the bytes of the error response are never
\* handed to the decoder as file content.  Stated for attempts whose
\* discovery reported no error.
C20_ErrorBodyNeverDecoded ==
    \A c \in Slots : ~(calls[c].pc = "errbody" /\ calls[c].alerts = 0)

\* C21: in every reachable state, states inside or after interleaved, failed
\* or superseded loads included, offset is null or equal to the number of
\* rows in the dataset.
C21_OffsetIsNullOrRowCount ==
    offset = NULL \/ offset = Len(data)

\* C22: the loading flag is true exactly while at least one loadMore
\* invocation is in flight; it is not cleared while another invocation is
\* still in flight.  Stated for the states between tasks, where no
\* continuation after onComplete is running.
C22_LoadingIffInFlight ==
    ~Running => (loading <=> \E c \in Slots : InFlight(c))

\* the Modal instances of the open descriptors
OpenInstances == {Instance(modals[k].id) : k \in 1..Len(modals)}

\* the descriptors of a list have ids that differ from each other
DistinctIds(list) == \A j, k \in 1..Len(list) : j # k => list[j].id # list[k].id

\* C23: a Modal's keydown listener is registered exactly while its descriptor
\* is in the modal list, on every path that removes the modal (close button,
\* backdrop, Escape, removal by reset), and one Escape keypress closes at most
\* one of the open modals.  Stated for steps between modal lists of distinct
\* ids, from a state in which exactly the open modals have their listener.
C23_ListenerWhileOpen ==
    [][(DistinctIds(modals) /\ DistinctIds(modals') /\ listeners = OpenInstances)
       => (/\ listeners' = OpenInstances'
           /\ Escape => Len(modals') >= Len(modals) - 1)]_vars

====
